---- MODULE Spec2Model ----
(***************************************************************************)
(* Model of the fixed-size-block memory pool of main.cpp: Spinlock,        *)
(* alignPointer and MemoryPool (allocateBlock, deallocateBlock, reset,     *)
(* initializeMemoryPool, resizePool, destroyMemoryPool), driven by         *)
(* consumer threads that hold the blocks they were given.                  *)
(*                                                                         *)
(* A block is the pair <<r, i>>: slot i of the r-th backing region that    *)
(* was reserved (region 1 is the one made by the constructor).  The link   *)
(* word of a block (Block::next) is next[b].                               *)
(***************************************************************************)
EXTENDS Integers, Sequences, FiniteSets, TLC

\* ---------------------------------------------------------------- bounds
NumThreads == 2
MaxCapacity == 2
MaxRegions == 5
MaxOps == 4
MaxResets == 1

\* ------------------------------------------------------ program constants
\* sizeof(Block): one pointer
PointerWidth == 8
\* alignment guaranteed by operator new (alignof(std::max_align_t))
NewAlignment == 16

Threads == 1..NumThreads

\* nullptr, and the bit pattern a consumer's payload leaves in the link word
NULL == <<0, 0>>
PAYLOAD == <<0, 1>>

\* usedBlocks is set by no constructor code: its first value is whatever the
\* storage of the pool object held (0, or anything else)
Indeterminate == {0, 5}

\* the constructor arguments and the raw addresses operator new may return
BlockSizes == {16}
Alignments == {2 * NewAlignment}

\* the addresses operator new may return for the r-th reservation: disjoint
\* from one reservation to the next, each a multiple of NewAlignment
RawAddrs(r) == {r * NewAlignment * NewAlignment + k * NewAlignment : k \in {0, 1}}

VARIABLES
    lock,          \* Spinlock::lock (atomic_flag)
    freeList,      \* MemoryPool::freeList
    next,          \* Block::next of every slot of every region
    poolStart,     \* MemoryPool::poolStart (the slot it points at, or NULL)
    blockSize,     \* MemoryPool::blockSize
    totalBlocks,   \* MemoryPool::totalBlocks
    usedBlocks,    \* MemoryPool::usedBlocks
    alignment,     \* MemoryPool::alignment
    regions,       \* the heap: every reservation made by operator new
    deleted,       \* the addresses handed to operator delete, in order
    pc,            \* each thread's position
    local,         \* allocateBlock's local (allocateBlock / newFreeList)
    arg,           \* deallocateBlock's parameter
    held,          \* the blocks each consumer thread holds
    cur,           \* bookkeeping of the call in progress
    log            \* the completed calls, in order of completion

vars == <<lock, freeList, next, poolStart, blockSize, totalBlocks, usedBlocks,
          alignment, regions, deleted, pc, local, arg, held, cur, log>>

poolVars == <<freeList, next, poolStart, blockSize, totalBlocks, usedBlocks,
              alignment, regions, deleted>>

\* ------------------------------------------------------------ alignPointer
\* (alignment & (alignment - 1)) == 0 for a non-zero alignment: one bit set
RECURSIVE OneBit(_)
OneBit(a) == IF a <= 1 THEN a = 1 ELSE a % 2 = 0 /\ OneBit(a \div 2)

\* an alignPointer that adds the misalignment instead of its complement
alignPointerAddsRest(p, a) ==
    IF a = 0 \/ ~OneBit(a) THEN -1
    ELSE p + (p % a)

\* an alignPointer without the final "% alignment"
alignPointerNoWrap(p, a) ==
    IF a = 0 \/ ~OneBit(a) THEN -1
    ELSE p + (a - (p % a))

\* main.cpp:33-45; std::invalid_argument is the result -1
alignPointer(p, a) ==
    IF a = 0 \/ ~OneBit(a) THEN -1
    ELSE LET misalignment == p % a
             adjustment == (a - misalignment) % a
         IN  p + adjustment

\* ------------------------------------------------------------ block layout
\* the slots the slicing loop writes: i = 0 and every i < n
Slots(n) == 0..(IF n = 0 THEN 0 ELSE n - 1)

RegionBlocks(r, n) == {<<r, i>> : i \in Slots(n)}

\* a slicing loop that stops one slot early
SliceLinksShort(r, n, tail) ==
    [b \in RegionBlocks(r, n) |->
        IF b[2] + 2 < n THEN <<r, b[2] + 1>> ELSE tail]

\* the loop of main.cpp:109-115 / 128-137: slot i-1 links to slot i for
\* 1 <= i < n, and the slot the loop stops at links to `tail`
SliceLinks(r, n, tail) ==
    [b \in RegionBlocks(r, n) |->
        IF b[2] + 1 < n THEN <<r, b[2] + 1>> ELSE tail]

\* the links as they are left in memory: with blocks narrower than a link,
\* writing the link of slot i+1 overwrites the upper part of the link of slot
\* i, which is then the address of no block
Overlapped(links, bs) ==
    IF bs >= PointerWidth THEN links
    ELSE [b \in DOMAIN links |->
            IF <<b[1], b[2] + 1>> \in DOMAIN links THEN PAYLOAD ELSE links[b]]

BlockAddr(b) == IF b = NULL THEN 0 ELSE regions[b[1]].start + b[2] * blockSize

AllBlocks == DOMAIN next

\* the free list as the sequence of blocks reached from `head`, cut after
\* `fuel` steps or at a link that is no block
RECURSIVE Walk(_, _, _)
Walk(nx, head, fuel) ==
    IF fuel = 0 \/ head \notin DOMAIN nx THEN <<>>
    ELSE <<head>> \o Walk(nx, nx[head], fuel - 1)

FreeSeq == Walk(next, freeList, Cardinality(AllBlocks) + 1)

FreeSet == {FreeSeq[i] : i \in 1..Len(FreeSeq)}

NoCall == [used0 |-> 0, grew |-> FALSE, len0 |-> 0, quiet |-> FALSE, fl0 |-> <<>>]

\* ------------------------------------------------------------------- Init
\* MemoryPool::MemoryPool + initializeMemoryPool, main.cpp:57-60, 98-116
InitPool(bs, cap, al, raw) ==
    /\ alignment = al
    /\ blockSize = bs
    /\ totalBlocks = cap
    /\ regions = <<[raw |-> raw, start |-> alignPointer(raw, al), n |-> cap]>>
    /\ poolStart = <<1, 0>>
    /\ freeList = <<1, 0>>
    /\ next = Overlapped(SliceLinks(1, cap, NULL), bs)
    /\ usedBlocks \in Indeterminate
    /\ lock = FALSE
    /\ deleted = <<>>

Init ==
    /\ \E bs \in BlockSizes, cap \in 1..MaxCapacity, al \in Alignments,
          raw \in RawAddrs(1) : InitPool(bs, cap, al, raw)
    /\ pc = [t \in Threads |-> "idle"]
    /\ local = [t \in Threads |-> NULL]
    /\ arg = [t \in Threads |-> NULL]
    /\ held = [t \in Threads |-> {}]
    /\ cur = [t \in Threads |-> NoCall]
    /\ log = <<>>

\* ------------------------------------------------------------ construction
\* the arguments a caller may pass to the constructor, valid or not
CtorBlockSizes == {PointerWidth \div 2, PointerWidth, 2 * PointerWidth}

CtorAlignments == {0, 1, 4, 6, NewAlignment, 2 * NewAlignment}

CtorCapacities == 0..MaxCapacity

\* the addresses the constructor's reservation may return: those of the
\* default operator new, and two a replaced operator new could return
CtorRawAddrs ==
    RawAddrs(1) \cup {NewAlignment * NewAlignment + k : k \in {1, 12}}

\* blockSize * totalBlocks + alignment - 1 in size_t wraps below zero to a
\* size no heap can serve
SizeWraps(bs, cap, al) == bs * cap + al - 1 < 0

\* the storage of the pool object before its constructor runs; of its
\* fields only usedBlocks is still what the storage held afterwards
InitConstruct ==
    /\ alignment = 0
    /\ blockSize = 0
    /\ totalBlocks = 0
    /\ usedBlocks \in Indeterminate
    /\ regions = <<>>
    /\ poolStart = NULL
    /\ freeList = NULL
    /\ next = <<>>
    /\ lock = FALSE
    /\ deleted = <<>>
    /\ pc = [t \in Threads |-> IF t = 1 THEN "c57" ELSE "idle"]
    /\ local = [t \in Threads |-> NULL]
    /\ arg = [t \in Threads |-> NULL]
    /\ held = [t \in Threads |-> {}]
    /\ cur = [t \in Threads |-> NoCall]
    /\ log = <<>>

\* MemoryPool::MemoryPool, main.cpp:57-60: the fields set before anything
\* can fail (58, 99-101)
CtorFields(bs, cap, al) ==
    /\ alignment' = al
    /\ blockSize' = bs
    /\ totalBlocks' = cap

\* main.cpp:103 throws std::bad_alloc
CtorBadAlloc(bs, cap, al) ==
    /\ CtorFields(bs, cap, al)
    /\ pc' = [pc EXCEPT ![1] = "bad_alloc"]
    /\ UNCHANGED <<regions, poolStart, freeList, next>>

\* main.cpp:103 succeeds, and alignPointer throws std::invalid_argument at
\* 105: the constructor is left with the reservation made
CtorInvalid(bs, cap, al, raw) ==
    /\ CtorFields(bs, cap, al)
    /\ regions' = <<[raw |-> raw, start |-> alignPointer(raw, al), n |-> cap]>>
    /\ pc' = [pc EXCEPT ![1] = "invalid_argument"]
    /\ UNCHANGED <<poolStart, freeList, next>>

\* main.cpp:103-115 run to the end
CtorDone(bs, cap, al, raw) ==
    /\ CtorFields(bs, cap, al)
    /\ regions' = <<[raw |-> raw, start |-> alignPointer(raw, al), n |-> cap]>>
    /\ poolStart' = <<1, 0>>
    /\ freeList' = <<1, 0>>
    /\ next' = Overlapped(SliceLinks(1, cap, NULL), bs)
    /\ pc' = [pc EXCEPT ![1] = "idle"]

\* MemoryPool pool(bs, cap, al) in the main thread, main.cpp:312
Construct ==
    /\ pc[1] = "c57"
    /\ \E bs \in CtorBlockSizes, cap \in CtorCapacities, al \in CtorAlignments :
         \/ CtorBadAlloc(bs, cap, al)
         \/ /\ ~SizeWraps(bs, cap, al)
            /\ \E raw \in CtorRawAddrs :
                 IF alignPointer(raw, al) = -1
                 THEN CtorInvalid(bs, cap, al, raw)
                 ELSE CtorDone(bs, cap, al, raw)
    /\ UNCHANGED <<lock, usedBlocks, deleted, local, arg, held, cur, log>>

\* ---------------------------------------------------------------- helpers
Idle(t) == pc[t] = "idle"

Quiescent == \A t \in Threads : Idle(t)

Alive == poolStart # NULL

IsReset(e) == e.op = "reset"

IsPoolCall(e) == ~IsReset(e)

\* the allocate/deallocate calls made so far, and the reset calls
InFlight ==
    Len(SelectSeq(log, IsPoolCall))
        + Cardinality({t \in Threads : pc[t] \notin {"idle", "r95"}})

ResetsMade ==
    Len(SelectSeq(log, IsReset)) + Cardinality({t \in Threads : pc[t] = "r95"})

CanCall(t) == Idle(t) /\ Alive /\ InFlight < MaxOps

CanReset(t) == Idle(t) /\ Alive /\ ResetsMade < MaxResets

Entry(t, op, blk, res) ==
    [op |-> op, t |-> t, blk |-> blk, res |-> res,
     used0 |-> cur[t].used0, used1 |-> usedBlocks, grew |-> cur[t].grew,
     quiet |-> cur[t].quiet, fl0 |-> cur[t].fl0, fl1 |-> FreeSeq]

Goto(t, l) == pc' = [pc EXCEPT ![t] = l]

\* ---------------------------------------------------------------- Spinlock
\* a lockPool that does not wait for the flag to be clear
TestAndSetNoWait == lock' = TRUE

\* lockPool, main.cpp:22-26: test_and_set succeeds only on a clear flag
TestAndSet == lock = FALSE /\ lock' = TRUE

\* an unlockPool that leaves the flag as it is
ClearKeeps == lock' = lock

\* unlockPool, main.cpp:28-30
Clear == lock' = FALSE

\* ----------------------------------------------------------- allocateBlock
\* a consumer calls pool->allocateBlock(), main.cpp:171
CallAllocate(t) ==
    /\ CanCall(t)
    /\ Goto(t, "a67")
    /\ UNCHANGED <<lock, poolVars, local, arg, held, cur, log>>

\* main.cpp:67
AllocLock(t) ==
    /\ pc[t] = "a67"
    /\ TestAndSet
    /\ Goto(t, "a69")
    /\ cur' = [cur EXCEPT ![t].used0 = usedBlocks, ![t].fl0 = FreeSeq]
    /\ UNCHANGED <<poolVars, local, arg, held, log>>

\* an allocateBlock that grows the pool whether or not the free list is empty
AllocCheckEager(t) ==
    /\ pc[t] = "a69"
    /\ Goto(t, "a119")
    /\ cur' = [cur EXCEPT ![t].grew = TRUE]
    /\ UNCHANGED <<lock, poolVars, local, arg, held, log>>

\* main.cpp:69
AllocCheck(t) ==
    /\ pc[t] = "a69"
    /\ Goto(t, IF freeList = NULL THEN "a119" ELSE "a73")
    /\ cur' = [cur EXCEPT ![t].grew = (freeList = NULL)]
    /\ UNCHANGED <<lock, poolVars, local, arg, held, log>>

\* resizePool, main.cpp:119
NewSize == totalBlocks + (totalBlocks \div 2)

\* resizePool, main.cpp:119-137: reserve, align, slice, link the tail to the
\* current free list
ResizeReserve(t) ==
    /\ pc[t] = "a119"
    /\ Len(regions) < MaxRegions
    /\ \E raw \in RawAddrs(Len(regions) + 1) :
         LET r == Len(regions) + 1
             n == NewSize
         IN  /\ regions' = Append(regions,
                    [raw |-> raw, start |-> alignPointer(raw, alignment), n |-> n])
             /\ next' = [b \in DOMAIN next \cup RegionBlocks(r, n) |->
                    IF b \in RegionBlocks(r, n)
                    THEN Overlapped(SliceLinks(r, n, freeList), blockSize)[b]
                    ELSE next[b]]
             /\ local' = [local EXCEPT ![t] = <<r, 0>>]
    /\ Goto(t, "a138")
    /\ UNCHANGED <<lock, freeList, poolStart, blockSize, totalBlocks,
                   usedBlocks, alignment, deleted, arg, held, cur, log>>

\* resizePool, main.cpp:121: operator new throws std::bad_alloc, which leaves
\* resizePool and allocateBlock; the caller gets the exception
ResizeThrow(t) ==
    /\ pc[t] = "a119"
    /\ Goto(t, "idle")
    /\ log' = Append(log, Entry(t, "allocate", NULL, "threw"))
    /\ cur' = [cur EXCEPT ![t] = NoCall]
    /\ UNCHANGED <<lock, poolVars, local, arg, held>>

\* a resizePool that starts the new region as a fresh pool
ResizeInstallFresh(t) ==
    /\ pc[t] = "a138"
    /\ freeList' = local[t]
    /\ totalBlocks' = regions[local[t][1]].n
    /\ usedBlocks' = 0
    /\ Goto(t, "a73")
    /\ UNCHANGED <<lock, next, poolStart, blockSize, alignment,
                   regions, deleted, local, arg, held, cur, log>>

\* resizePool, main.cpp:138-139
ResizeInstall(t) ==
    /\ pc[t] = "a138"
    /\ freeList' = local[t]
    /\ totalBlocks' = regions[local[t][1]].n
    /\ Goto(t, "a73")
    /\ UNCHANGED <<lock, next, poolStart, blockSize, usedBlocks, alignment,
                   regions, deleted, local, arg, held, cur, log>>

\* main.cpp:73-76
AllocCheckAgain(t) ==
    /\ pc[t] = "a73"
    /\ IF freeList = NULL
       THEN /\ Clear
            /\ Goto(t, "idle")
            /\ log' = Append(log, Entry(t, "allocate", NULL, "null"))
            /\ cur' = [cur EXCEPT ![t] = NoCall]
       ELSE /\ Goto(t, "a78")
            /\ UNCHANGED <<lock, log, cur>>
    /\ UNCHANGED <<poolVars, local, arg, held>>

\* main.cpp:78
AllocRead(t) ==
    /\ pc[t] = "a78"
    /\ local' = [local EXCEPT ![t] = freeList]
    /\ Goto(t, "a79")
    /\ UNCHANGED <<lock, poolVars, arg, held, cur, log>>

\* main.cpp:79: freeList->next of a pointer that is no block is a wild read
AllocPop(t) ==
    /\ pc[t] = "a79"
    /\ IF freeList \in DOMAIN next
       THEN freeList' = next[freeList] /\ Goto(t, "a80")
       ELSE freeList' = freeList /\ Goto(t, "fault")
    /\ UNCHANGED <<lock, next, poolStart, blockSize, totalBlocks, usedBlocks,
                   alignment, regions, deleted, local, arg, held, cur, log>>

\* main.cpp:80
AllocCount(t) ==
    /\ pc[t] = "a80"
    /\ usedBlocks' = usedBlocks + 1
    /\ Goto(t, "a81")
    /\ UNCHANGED <<lock, freeList, next, poolStart, blockSize, totalBlocks,
                   alignment, regions, deleted, local, arg, held, cur, log>>

\* main.cpp:81-83, and the consumer constructing its value in the block
\* (main.cpp:178), which overwrites the link word
AllocReturn(t) ==
    /\ pc[t] = "a81"
    /\ Clear
    /\ held' = [held EXCEPT ![t] = @ \cup {local[t]}]
    /\ next' = [b \in DOMAIN next |-> IF b = local[t] THEN PAYLOAD ELSE next[b]]
    /\ log' = Append(log, Entry(t, "allocate", local[t], "block"))
    /\ Goto(t, "idle")
    /\ local' = [local EXCEPT ![t] = NULL]
    /\ cur' = [cur EXCEPT ![t] = NoCall]
    /\ UNCHANGED <<freeList, poolStart, blockSize, totalBlocks, usedBlocks,
                   alignment, regions, deleted, arg>>

\* --------------------------------------------------------- deallocateBlock
\* a consumer calls pool->deallocateBlock(b) on a block it holds
\* (main.cpp:217)
CallDeallocate(t) ==
    /\ CanCall(t)
    /\ \E b \in held[t] : arg' = [arg EXCEPT ![t] = b]
    /\ Goto(t, "d87")
    /\ UNCHANGED <<lock, poolVars, local, held, cur, log>>

\* main.cpp:87
DeallocLock(t) ==
    /\ pc[t] = "d87"
    /\ TestAndSet
    /\ Goto(t, "d88")
    /\ cur' = [cur EXCEPT ![t].used0 = usedBlocks, ![t].fl0 = FreeSeq]
    /\ UNCHANGED <<poolVars, local, arg, held, log>>

\* a deallocateBlock that ends the list at the freed block
DeallocLinkNull(t) ==
    /\ pc[t] = "d88"
    /\ next' = [next EXCEPT ![arg[t]] = NULL]
    /\ Goto(t, "d89")
    /\ UNCHANGED <<lock, freeList, poolStart, blockSize, totalBlocks,
                   usedBlocks, alignment, regions, deleted, local, arg, held,
                   cur, log>>

\* main.cpp:88
DeallocLink(t) ==
    /\ pc[t] = "d88"
    /\ next' = [next EXCEPT ![arg[t]] = freeList]
    /\ Goto(t, "d89")
    /\ UNCHANGED <<lock, freeList, poolStart, blockSize, totalBlocks,
                   usedBlocks, alignment, regions, deleted, local, arg, held,
                   cur, log>>

\* main.cpp:89: the block is the pool's again
DeallocPush(t) ==
    /\ pc[t] = "d89"
    /\ freeList' = arg[t]
    /\ held' = [held EXCEPT ![t] = @ \ {arg[t]}]
    /\ Goto(t, "d90")
    /\ UNCHANGED <<lock, next, poolStart, blockSize, totalBlocks, usedBlocks,
                   alignment, regions, deleted, local, arg, cur, log>>

\* main.cpp:90
DeallocReturn(t) ==
    /\ pc[t] = "d90"
    /\ Clear
    /\ log' = Append(log, Entry(t, "deallocate", arg[t], "void"))
    /\ Goto(t, "idle")
    /\ arg' = [arg EXCEPT ![t] = NULL]
    /\ cur' = [cur EXCEPT ![t] = NoCall]
    /\ UNCHANGED <<poolVars, local, held>>

\* ------------------------------------------------------------------- reset
Others(t) == Threads \ {t}

\* nobody else is inside the pool and no block is outstanding
NothingOutstanding(t) ==
    /\ \A u \in Others(t) : Idle(u)
    /\ \A u \in Threads : held[u] = {}

\* a thread calls pool.reset(); main.cpp:94 (no lockPool precedes it)
ResetHead(t) ==
    /\ CanReset(t)
    /\ freeList' = poolStart
    /\ cur' = [cur EXCEPT ![t] = [used0 |-> usedBlocks, grew |-> FALSE,
                                  fl0 |-> <<>>, len0 |-> Len(log),
                                  quiet |-> NothingOutstanding(t)]]
    /\ Goto(t, "r95")
    /\ UNCHANGED <<lock, next, poolStart, blockSize, totalBlocks, usedBlocks,
                   alignment, regions, deleted, local, arg, held, log>>

\* main.cpp:95
ResetCount(t) ==
    /\ pc[t] = "r95"
    /\ usedBlocks' = 0
    /\ log' = Append(log, [Entry(t, "reset", NULL, "void") EXCEPT
                    !.used1 = 0,
                    !.quiet = cur[t].quiet /\ NothingOutstanding(t)
                                /\ Len(log) = cur[t].len0])
    /\ Goto(t, "idle")
    /\ cur' = [cur EXCEPT ![t] = NoCall]
    /\ UNCHANGED <<lock, freeList, next, poolStart, blockSize, totalBlocks,
                   alignment, regions, deleted, local, arg, held>>

\* ------------------------------------------------------- destroyMemoryPool
\* ~MemoryPool, main.cpp:62-64, 144-148, once every consumer is done and has
\* given its blocks back
Destroy ==
    /\ Alive
    /\ Quiescent
    /\ \A t \in Threads : held[t] = {}
    /\ deleted' = Append(deleted, BlockAddr(poolStart))
    /\ poolStart' = NULL
    /\ freeList' = NULL
    /\ UNCHANGED <<lock, next, blockSize, totalBlocks, usedBlocks, alignment,
                   regions, pc, local, arg, held, cur, log>>

\* ------------------------------------------------------------------- specs
Allocate(t) ==
    \/ CallAllocate(t)
    \/ AllocLock(t)
    \/ AllocCheck(t)
    \/ ResizeReserve(t)
    \/ ResizeThrow(t)
    \/ ResizeInstall(t)
    \/ AllocCheckAgain(t)
    \/ AllocRead(t)
    \/ AllocPop(t)
    \/ AllocCount(t)
    \/ AllocReturn(t)

Deallocate(t) ==
    \/ CallDeallocate(t)
    \/ DeallocLock(t)
    \/ DeallocLink(t)
    \/ DeallocPush(t)
    \/ DeallocReturn(t)

Reset(t) == ResetHead(t) \/ ResetCount(t)

\* the pool used within its contract: allocate and deallocate only
NextContract == \E t \in Threads : Allocate(t) \/ Deallocate(t)

SpecContract == Init /\ [][NextContract]_vars

\* the same, from a pool whose usedBlocks happened to start at 0
InitZeroed == Init /\ usedBlocks = 0

SpecZeroed == InitZeroed /\ [][NextContract]_vars

\* construction with any arguments, then the pool used by the main thread
NextConstruct == Construct \/ Allocate(1) \/ Deallocate(1)

SpecConstruct == InitConstruct /\ [][NextConstruct]_vars

\* the steps of a call once it is made. ResizeThrow is left out: every
\* reservation succeeds
LiveStep(t) ==
    \/ AllocLock(t)
    \/ AllocCheck(t)
    \/ ResizeReserve(t)
    \/ ResizeInstall(t)
    \/ AllocCheckAgain(t)
    \/ AllocRead(t)
    \/ AllocPop(t)
    \/ AllocCount(t)
    \/ AllocReturn(t)
    \/ DeallocLock(t)
    \/ DeallocLink(t)
    \/ DeallocPush(t)
    \/ DeallocReturn(t)

NextLive ==
    \E t \in Threads : CallAllocate(t) \/ CallDeallocate(t) \/ LiveStep(t)

\* the scheduler runs every thread again and again: a thread that can take
\* its next step takes it. A failed test_and_set (main.cpp:23-24) changes
\* nothing and yields, so a waiting thread only needs the flag to stay clear.
\* Nothing obliges a thread to make another call.
FairScheduling == \A t \in Threads : WF_vars(LiveStep(t))

\* finitely many allocate/deallocate calls, every reservation succeeding,
\* fair scheduling
SpecLive == Init /\ [][NextLive]_vars /\ FairScheduling

\* every operation of the pool
Next ==
    \/ \E t \in Threads : Allocate(t) \/ Deallocate(t) \/ Reset(t)
    \/ Destroy

Spec == Init /\ [][Next]_vars


\* ------------------------------------------------------------- properties
InitialCapacity == regions[1].n

\* the block a thread has popped and is about to return
InTransit(t) == IF pc[t] \in {"a80", "a81"} THEN {local[t]} ELSE {}

Owned(t) == held[t] \cup InTransit(t)

Outstanding == UNION {Owned(t) : t \in Threads}

Returned(i) == log[i].op = "allocate" /\ log[i].res = "block"

\* C1: a block returned by allocate() is not returned by another allocate()
\* before it was passed to deallocate(), and no two callers own the same
\* block at once (a block a call is about to return counts as owned by it).
C1_Exclusive ==
    /\ \A i, j \in DOMAIN log :
         (i < j /\ Returned(i) /\ Returned(j) /\ log[i].blk = log[j].blk)
         => \E k \in (i + 1)..(j - 1) :
                log[k].op = "deallocate" /\ log[k].blk = log[i].blk
    /\ \A t, u \in Threads : t # u => Owned(t) \cap Owned(u) = {}
    /\ \A t \in Threads : InTransit(t) \cap held[t] = {}

\* a block was given to one thread, given back, and given to another thread,
\* while the first thread holds another block
C1_Witness ==
    \E i, j \in DOMAIN log :
        /\ i < j /\ Returned(i) /\ Returned(j)
        /\ log[i].blk = log[j].blk /\ log[i].t # log[j].t
        /\ log[i].blk \in held[log[j].t]
        /\ held[log[i].t] # {}

\* C2: at a quiescent point usedBlocks is the number of blocks returned by
\* allocate() and not yet passed to deallocate().
C2_CountMatches ==
    Quiescent => usedBlocks = Cardinality(Outstanding)

\* C3: 0 <= usedBlocks <= totalBlocks in every reachable state.
C3_CountInRange ==
    0 <= usedBlocks /\ usedBlocks <= totalBlocks

\* C4: outside the growth step, every block of every region is either
\* reachable from the free-list head or owned by a consumer, never both and
\* never neither, and the free list is a null-terminated chain without
\* repetition.
C4_Partition ==
    (\A t \in Threads : pc[t] # "a138") =>
        LET chain == FreeSeq
            free == {chain[i] : i \in 1..Len(chain)}
            out == Outstanding
        IN  /\ free \cap out = {}
            /\ free \cup out = AllBlocks
            /\ Cardinality(free) = Len(chain)
            /\ (chain = <<>> => freeList = NULL)
            /\ (chain # <<>> => next[chain[Len(chain)]] = NULL)

\* after a growth, blocks of two regions are free and blocks are held by
\* both threads
C4_Witness ==
    /\ Quiescent /\ lock = FALSE
    /\ \E b, c \in FreeSet : b[1] # c[1]
    /\ \A t \in Threads : held[t] # {}

\* the last completed call
Last == log[Len(log)]

CurrentRegion == Len(regions)

\* every reset() so far ran while no block was outstanding and no other
\* thread was inside the pool
ResetsInContract ==
    \A i \in DOMAIN log : log[i].op = "reset" => log[i].quiet

\* C5: right after a reset() (every reset so far made within the caller
\* contract), usedBlocks is 0 and the free list is a null-terminated chain
\* of exactly totalBlocks distinct blocks of the current backing region.
C5_ResetFresh ==
    (Alive /\ Quiescent /\ log # <<>> /\ Last.op = "reset" /\ ResetsInContract) =>
        /\ usedBlocks = 0
        /\ Len(FreeSeq) = totalBlocks
        /\ Cardinality(FreeSet) = totalBlocks
        /\ FreeSet = RegionBlocks(CurrentRegion, totalBlocks)
        /\ next[FreeSeq[Len(FreeSeq)]] = NULL

\* an allocate() whose growth could not reserve its region
FailedGrowth(e) == e.op = "allocate" /\ e.grew /\ e.res # "block"

\* C6: an allocate() whose growth reservation fails returns null to its
\* caller, leaves usedBlocks as it was, and has released the lock when it
\* is back at its caller.
C6_GrowthFailureReturnsNull ==
    /\ \A i \in DOMAIN log :
         FailedGrowth(log[i]) => log[i].res = "null" /\ log[i].used1 = log[i].used0
    /\ (Quiescent /\ log # <<>> /\ FailedGrowth(Last)) => lock = FALSE

\* the positions between lockPool and unlockPool, and inside reset's body
InCritical(t) ==
    pc[t] \in {"a69", "a119", "a138", "a73", "a78", "a79", "a80", "a81",
               "d88", "d89", "d90"}

InReset(t) == pc[t] = "r95"

\* C7: no two threads are inside a critical section of allocate(),
\* deallocate() or growth at once, and no thread is inside the body of
\* reset() while another is inside such a critical section.
C7_Serialized ==
    \A t, u \in Threads :
        t # u => /\ ~(InCritical(t) /\ InCritical(u))
                 /\ ~(InReset(t) /\ InCritical(u))

Releases(a) == Cardinality({k \in DOMAIN deleted : deleted[k] = a})

\* C8: after Destroy every region ever reserved has been released exactly
\* once, by the raw address its reservation returned, and nothing else was
\* released.
C8_LeakFree ==
    ~Alive =>
        /\ \A r \in DOMAIN regions : Releases(regions[r].raw) = 1
        /\ Len(deleted) = Len(regions)

\* the first k completed calls are allocate() calls, none of which met a
\* failing reservation
AllocPrefix(k) ==
    /\ k <= Len(log)
    /\ \A j \in 1..k : log[j].op = "allocate" /\ log[j].res # "threw"

\* C9: from construction with capacity N, when the first k calls are
\* allocate() calls: each of the first N returns a block without growing,
\* the (N+1)th grows (once: a call grows at most once) and returns a block,
\* and the first N+1 blocks are pairwise distinct.
C9_Exhaustion ==
    \A k \in 1..(InitialCapacity + 1) :
        AllocPrefix(k) =>
            /\ Returned(k) /\ log[k].blk \in AllBlocks
            /\ log[k].grew = (k = InitialCapacity + 1)
            /\ \A j \in 1..(k - 1) : log[j].blk # log[k].blk
            /\ (k <= InitialCapacity => log[k].blk[1] = 1)
            /\ (k = InitialCapacity + 1 => log[k].blk[1] = 2)

\* a pool of capacity 2 has served 3 allocations
C9_Witness ==
    /\ InitialCapacity = 2
    /\ AllocPrefix(3)
    /\ log[3].grew

\* C10: a deallocate() directly followed by an allocate() leaves usedBlocks
\* at the value it had before the deallocate().
C10_RoundTripCount ==
    \A i \in DOMAIN log :
        (i < Len(log) /\ log[i].op = "deallocate" /\ Returned(i + 1))
        => log[i + 1].used1 = log[i].used0

\* C11: when a deallocate(b) is directly followed by an allocate(), that
\* allocate() returns b without growing the pool, and leaves the free list
\* as it was before the deallocate(b).
C11_Lifo ==
    \A i \in DOMAIN log :
        (i < Len(log) /\ log[i].op = "deallocate" /\ log[i + 1].op = "allocate")
        => /\ Returned(i + 1)
           /\ log[i + 1].blk = log[i].blk
           /\ ~log[i + 1].grew
           /\ log[i + 1].fl1 = log[i].fl0
           /\ log[i + 1].fl0 = <<log[i].blk>> \o log[i].fl0

\* a block was freed onto a non-empty free list and allocated again right
\* after, by the other thread
C11_Witness ==
    \E i \in DOMAIN log :
        /\ i < Len(log) /\ log[i].op = "deallocate" /\ Returned(i + 1)
        /\ log[i].fl0 # <<>>
        /\ log[i].t # log[i + 1].t

\* a step of resizePool: its reservation and slicing, or its install
GrowthStep ==
    \E t \in Threads :
        \/ pc[t] = "a119" /\ pc'[t] = "a138"
        \/ pc[t] = "a138" /\ pc'[t] = "a73"

\* C12: a step of growth leaves every block a consumer holds held by the
\* same consumer, at the same address, off the free list, in a region that
\* is still reserved, and leaves usedBlocks unchanged.
C12_GrowthKeepsOutstanding ==
    [][GrowthStep =>
        /\ usedBlocks' = usedBlocks
        /\ deleted' = deleted
        /\ \A u \in Threads : \A b \in held[u] :
              /\ b \in held'[u]
              /\ \A v \in Threads \ {u} : b \notin held'[v]
              /\ regions'[b[1]] = regions[b[1]]
              /\ BlockAddr(b)' = BlockAddr(b)
              /\ b \notin FreeSet']_vars

\* a growth has just been installed while both threads hold a block
C12_Witness ==
    \E t \in Threads :
        /\ pc[t] = "a73" /\ cur[t].grew
        /\ freeList[1] = Len(regions) /\ Len(regions) >= 2
        /\ \A u \in Threads : held[u] # {}

\* the constructor has run to its end
Constructed == Alive /\ regions # <<>>

ValidAlignment == alignment # 0 /\ OneBit(alignment)

\* the slots of a region that are blocks of it
RealBlocks(r) == {<<r, i>> : i \in 0..(regions[r].n - 1)}

ValidArguments == ValidAlignment /\ blockSize >= PointerWidth

\* C13: in a pool constructed with a power-of-two alignment and a block at
\* least a link wide, the address of every block of every region is a
\* multiple of the alignment.
C13_BlocksAligned ==
    (Constructed /\ ValidArguments) =>
        \A r \in DOMAIN regions : \A b \in RealBlocks(r) :
            BlockAddr(b) % alignment = 0

\* C14: with a power-of-two alignment, the start of the sliced part of every
\* region, the constructor's and each growth's, is a multiple of the
\* alignment, whatever address the reservation returned.
C14_StartAligned ==
    ValidAlignment =>
        \A r \in DOMAIN regions : regions[r].start % alignment = 0

\* the pool grew, and neither reservation came back aligned
C14_Witness ==
    /\ Len(regions) >= 2
    /\ \A r \in {1, 2} : regions[r].raw % alignment # 0

\* C15: a construction with an alignment that is zero or no power of two,
\* whose reservation did not fail, ends in the invalid-alignment error with
\* no pool and no region left reserved.
C15_InvalidAlignmentFails ==
    (pc[1] \notin {"c57", "bad_alloc"} /\ ~ValidAlignment
        /\ blockSize >= PointerWidth) =>
        /\ pc[1] = "invalid_argument"
        /\ ~Alive
        /\ Len(regions) = Len(deleted)

\* C16: no pool is constructed with a block narrower than a link.
C16_BlockSizeValidated ==
    Constructed => blockSize >= PointerWidth

\* right after a successful construction with valid arguments
JustConstructed ==
    /\ Constructed /\ Quiescent /\ log = <<>> /\ lock = FALSE
    /\ ValidArguments
    /\ InitialCapacity >= 1

\* C17: right after construction usedBlocks is 0, totalBlocks is the
\* capacity asked for, and the free list is slot 0, 1, ..., capacity-1 of the
\* region in this order, ending in none.
C17_FreshPool ==
    JustConstructed =>
        /\ usedBlocks = 0
        /\ totalBlocks = InitialCapacity
        /\ freeList = <<1, 0>>
        /\ \A i \in 0..(InitialCapacity - 2) : next[<<1, i>>] = <<1, i + 1>>
        /\ next[<<1, InitialCapacity - 1>>] = NULL
        /\ FreeSeq = [i \in 1..InitialCapacity |-> <<1, i - 1>>]

\* the bytes of the r-th reservation: blockSize * n + alignment - 1
RegionSize(r) == blockSize * regions[r].n + alignment - 1

\* C18: every region added by growth has at least one block and more blocks
\* than totalBlocks counted before it (the size of the region before), and
\* every slot it puts on the free list lies inside its reserved bytes.
C18_GrowthGrows ==
    ValidArguments =>
        \A r \in DOMAIN regions :
            r >= 2 =>
                /\ regions[r].n >= 1
                /\ regions[r].n > regions[r - 1].n
                /\ \A i \in Slots(regions[r].n) :
                      regions[r].start + (i + 1) * blockSize
                          <= regions[r].raw + RegionSize(r)

\* C19: for a power-of-two alignment, alignPointer(address) is a multiple of
\* the alignment, at least the address and less than the address plus the
\* alignment, and the address itself when that is aligned.
C19_AlignUp ==
    ValidAlignment =>
        \A r \in DOMAIN regions :
            LET p == regions[r].raw
                q == regions[r].start
            IN  /\ q % alignment = 0
                /\ p <= q /\ q < p + alignment
                /\ (p % alignment = 0 => q = p)

\* alignPointer was applied to an aligned and to an unaligned address
C19_Witness ==
    /\ Len(regions) >= 2
    /\ alignment > 1
    /\ regions[1].raw % alignment # 0
    /\ regions[2].raw % alignment = 0

\* C20: under fair scheduling, with finitely many calls and every reservation
\* succeeding, every allocate/deallocate call a thread has entered eventually
\* returns, and whenever no thread is inside a call the spin-lock is clear.
\* []<>Idle(t) is (~Idle(t)) ~> Idle(t): from every point on, thread t is
\* outside a call now or later
C20_NoCallBlocksForever ==
    /\ \A t \in Threads : []<>Idle(t)
    /\ [](Quiescent => lock = FALSE)

\* a thread spins in lockPool while another is growing the pool under the
\* lock, after an earlier call has returned
C20_Witness ==
    \E t, u \in Threads :
        /\ t # u
        /\ pc[t] \in {"a67", "d87"}
        /\ pc[u] = "a138"
        /\ lock = TRUE
        /\ log # <<>>

====
